---- MODULE Spec2Model ----
(***************************************************************************)
(* Keystore (src/keystore.py): a key-value configuration store kept in      *)
(* memory, seeded from caller-declared defaults, loaded from and saved to  *)
(* a JSON file on a storage device whose mount mode is negotiated once at  *)
(* construction through a safety pin.                                      *)
(***************************************************************************)
EXTENDS Integers, Sequences, FiniteSets, TLC

\* ---------------------------------------------------------------- bounds
\* most keyword arguments in one set()/save() call
MaxKwargs == 1
\* most positional arguments in one remove() call
MaxArgs == 2

\* ------------------------------------------------------------ input sets
\* names that are plain configuration keys
OrdinaryKeys == {"a", "x"}
\* names that Keystore defines as read-only properties on the class
PropertyNames == {"is_dirty"}
Keys == OrdinaryKeys \cup PropertyNames
\* names of the object's own fields, assigned in __init__
FieldNames == {"_persistent"}
\* values: a Python str or a Python int, with its text
Vals == {<<"str", "5">>, <<"int", "5">>}
\* the values tried for each key
ValsOf(k) ==
  IF k = "a" THEN Vals
  ELSE IF k \in FieldNames THEN {<<"bool", "True">>}
  ELSE {<<"str", "5">>}
\* the default declared for a key, when the caller declares one
DefaultOf(k) == IF k = "x" THEN <<"int", "5">> ELSE <<"str", "5">>
\* the pin argument: None, False, or a microcontroller pin
PinArgs == {"None", "False", "Pin"}
\* how the running Python's dict reacts to deletion during iteration
DictImpls == {"checked", "tombstone", "compact"}

\* ------------------------------------------------------------- mappings
EmptyMap == [k \in {} |-> <<>>]
Maps ==
  UNION {{m \in [S -> Vals] : \A k \in S : m[k] \in ValsOf(k)} : S \in SUBSET Keys}
\* the default sets tried: none, one key, two keys, and one whose key names
\* a property of the class
DefaultKeySets == {{}, {"a"}, {"a", "x"}, {"a", "is_dirty"}}
DefaultSets == {[k \in S |-> DefaultOf(k)] : S \in DefaultKeySets}
Override(f, g) ==
  [k \in (DOMAIN f) \cup (DOMAIN g) |-> IF k \in DOMAIN g THEN g[k] ELSE f[k]]
Restrict(f, S) == [k \in (DOMAIN f) \cap S |-> f[k]]
Without(f, k) == [j \in (DOMAIN f) \ {k} |-> f[j]]
Put(f, k, v) == [j \in (DOMAIN f) \cup {k} |-> IF j = k THEN v ELSE f[j]]

\* keyword arguments: an ordered list of (key, value) with distinct keys
RECURSIVE DistinctKeys(_)
DistinctKeys(kw) ==
  IF kw = <<>> THEN TRUE
  ELSE /\ \A i \in 2..Len(kw) : kw[i][1] # kw[1][1]
       /\ DistinctKeys(Tail(kw))
Kwargs ==
  {kw \in UNION {[1..n -> Keys \X Vals] : n \in 0..MaxKwargs} :
     /\ DistinctKeys(kw)
     /\ \A i \in DOMAIN kw : kw[i][2] \in ValsOf(kw[i][1])}
\* positional arguments of remove: any list of keys, repeats allowed
Args == UNION {[1..n -> Keys] : n \in 0..MaxArgs}
\* keyword arguments whose keys may also be names of the object's fields
KwargsAny ==
  {kw \in UNION {[1..n -> ({"a"} \cup FieldNames) \X (Vals \cup {<<"bool", "True">>})] :
                   n \in 0..MaxKwargs} :
     /\ DistinctKeys(kw)
     /\ \A i \in DOMAIN kw : kw[i][2] \in ValsOf(kw[i][1])}
KwMap(kw) ==
  [k \in {kw[i][1] : i \in DOMAIN kw} |->
      (CHOOSE p \in {kw[i] : i \in DOMAIN kw} : p[1] = k)[2]]

\* orders in which the entries of a mapping can be iterated
Orders(S) ==
  {o \in [1..Cardinality(S) -> S] : \A i, j \in DOMAIN o : i # j => o[i] # o[j]}

\* -------------------------------------------------------- document codec
\* json.dumps of one value: a str is written between quotes, an int bare
Quote == "\""
\* fault variant: every value written bare, as the key=value format did
JsonValueBare(v) == <<v[2]>>
JsonValue(v) ==
  IF v[1] = "str" THEN <<Quote, v[2], Quote>>
  ELSE IF v[1] = "bool" THEN <<"true">>
  ELSE <<v[2]>>
\* json.dumps(self._store): one member per key of the mapping
JsonDumps(m) == [k \in DOMAIN m |-> JsonValue(m[k])]
\* json.loads of one member's text
JsonParse(t) ==
  IF t[1] = Quote THEN <<"str", t[2]>>
  ELSE IF t[1] = "true" THEN <<"bool", "True">>
  ELSE <<"int", t[1]>>
JsonLoads(d) == [k \in DOMAIN d |-> JsonParse(d[k])]

\* the file at the store's path: absent, undecodable, or a JSON object
NoFile == [kind |-> "absent", text |-> EmptyMap]
Garbage == [kind |-> "garbage", text |-> EmptyMap]
JsonFile(m) == [kind |-> "json", text |-> JsonDumps(m)]
\* what the device holds before the first construction
InitialFiles == {NoFile, Garbage}


\* -------------------------------------------------------------- state
VARIABLES
  _default,     \* self._default: the defaults given at construction
  _store,       \* self._store: the live mapping
  attrs,        \* instance attributes set through setattr for stored keys
  _dirty,       \* self._dirty
  _persistent,  \* self._persistent
  phase,        \* "none": nothing constructed yet; "live": an object exists;
                \* "failed": the last constructor call raised
  file,         \* the file at self._filename on the storage device
  mounted_ro,   \* whether the device is mounted read-only for the program
  log,          \* what the last call did besides assigning fields: for the
                \* constructor its pin argument, then the calls into the
                \* environment in order, then the exception it raised
  unsaved,      \* a set/remove happened since the last load or written save
  rt            \* progress of a set(K); save(); reconstruct sequence that
                \* started with the live store equal to the defaults

vars == <<_default, _store, attrs, _dirty, _persistent, phase, file,
          mounted_ro, log, unsaved, rt>>

RtIdle == [stage |-> 0, K |-> EmptyMap, wrote |-> FALSE]
Raise(raised, e) == IF raised THEN << <<"raise", e>> >> ELSE <<>>

Init ==
  /\ _default \in DefaultSets
  /\ file \in InitialFiles
  /\ mounted_ro \in BOOLEAN
  /\ _store = EmptyMap
  /\ attrs = EmptyMap
  /\ _dirty = FALSE
  /\ _persistent = FALSE
  /\ phase = "none"
  /\ log = <<>>
  /\ unsaved = FALSE
  /\ rt = RtIdle

\* ------------------------------------------------------ __init__ helpers
\* __init__ lines 53-56: setattr(self, key, value) for every default; a key
\* that names a read-only property makes setattr raise AttributeError
InitAttrs(D) ==
  IF (DOMAIN D) \cap PropertyNames # {}
  THEN [attrs |-> EmptyMap, raised |-> TRUE]
  ELSE [attrs |-> D, raised |-> FALSE]

\* fault variant: the pin=None branch remounts like the others
RemountRequestedAlways(pin) == TRUE
\* _remount_storage: is storage.remount called at all for this pin argument
RemountRequested(pin) == pin # "None"
\* fault variant: the pin level taken with the wrong polarity
RemountModeInverted(pin, value) == IF pin = "False" THEN FALSE ELSE ~value
\* _remount_storage: the readonly argument passed to storage.remount;
\* value is switch.value, TRUE when the pulled-up pin is left unconnected
RemountMode(pin, value) == IF pin = "False" THEN FALSE ELSE value
\* fault variant: the flag assigned before the call, so a raise keeps it
PersistentAfterAlways(readonly, ok) == ~readonly
\* fault variant: the flag assigned readonly instead of not readonly
PersistentAfterSwapped(readonly, ok) == IF ok THEN readonly ELSE FALSE
\* _remount: self._persistent after the call (it starts FALSE)
PersistentAfter(readonly, ok) == IF ok THEN ~readonly ELSE FALSE
\* storage.remount: the mount mode after the call
MountAfter(before, readonly, ok) == IF ok THEN readonly ELSE before
\* _remount_storage: the calls it makes, in order: the pin is read only when
\* a pin is given, storage.remount is called unless pin is None
GateCalls(pin, value, ok) ==
  (IF pin = "Pin" THEN << <<"pin", IF value THEN "high" ELSE "low">> >> ELSE <<>>)
  \o (IF RemountRequested(pin)
      THEN << <<"remount", IF RemountMode(pin, value) THEN "ro" ELSE "rw",
                IF ok THEN "ok" ELSE "err">> >>
      ELSE <<>>)

\* _load lines 151-155: walk the loaded mapping in iteration order o;
\* a default key is projected as an attribute, any other key is deleted
\* from the mapping being iterated.  What the deletion does to the
\* iteration depends on the dict implementation:
\*   "checked"   the iterator notices the size change and raises RuntimeError
\*   "tombstone" the slot is marked deleted and the walk goes on
\*   "compact"   later entries move down one slot, so the next one is skipped
RECURSIVE LoadLoop(_, _, _, _, _)
LoadLoop(o, st, at, D, impl) ==
  IF o = <<>> THEN [store |-> st, attrs |-> at, raised |-> FALSE]
  ELSE LET k == Head(o) IN
    IF k \in DOMAIN D
    THEN LoadLoop(Tail(o), st, Put(at, k, st[k]), D, impl)
    ELSE IF impl = "checked"
    THEN [store |-> Without(st, k), attrs |-> at, raised |-> TRUE]
    ELSE IF impl = "tombstone"
    THEN LoadLoop(Tail(o), Without(st, k), at, D, impl)
    ELSE LoadLoop(IF Len(o) > 1 THEN Tail(Tail(o)) ELSE <<>>,
                  Without(st, k), at, D, impl)

\* fault variant: an absent file leaves an empty mapping instead of the
\* seeded defaults
_loadClearing(f, st, at, D, impl, o) ==
  IF f.kind = "absent"
  THEN [store |-> EmptyMap, attrs |-> at, raised |-> FALSE,
        calls |-> << <<"listdir">> >>]
  ELSE IF f.kind = "garbage"
  THEN [store |-> st, attrs |-> at, raised |-> TRUE,
        calls |-> << <<"listdir">>, <<"open_r">>, <<"raise", "ValueError">> >>]
  ELSE LET r == LoadLoop(o, JsonLoads(f.text), at, D, impl) IN
       [store |-> r.store, attrs |-> r.attrs, raised |-> r.raised,
        calls |-> << <<"listdir">>, <<"open_r">> >>
                  \o Raise(r.raised, "RuntimeError")]
\* _load: the outcome for file f, given the mapping and attributes that
\* __init__ seeded
_load(f, st, at, D, impl, o) ==
  IF f.kind = "absent"
  THEN [store |-> st, attrs |-> at, raised |-> FALSE,
        calls |-> << <<"listdir">> >>]
  ELSE IF f.kind = "garbage"
  THEN [store |-> st, attrs |-> at, raised |-> TRUE,
        calls |-> << <<"listdir">>, <<"open_r">>, <<"raise", "ValueError">> >>]
  ELSE LET r == LoadLoop(o, JsonLoads(f.text), at, D, impl) IN
       [store |-> r.store, attrs |-> r.attrs, raised |-> r.raised,
        calls |-> << <<"listdir">>, <<"open_r">> >>
                  \o Raise(r.raised, "RuntimeError")]

\* ------------------------------------------------ set / remove helpers
\* set lines 110-112
RECURSIVE SetLoop(_, _, _)
SetLoop(st, at, kw) ==
  IF kw = <<>> THEN [store |-> st, attrs |-> at, raised |-> FALSE]
  ELSE LET k == kw[1][1]
           v == kw[1][2]
       IN IF k \in PropertyNames
          THEN [store |-> Put(st, k, v), attrs |-> at, raised |-> TRUE]
          ELSE SetLoop(Put(st, k, v), Put(at, k, v), Tail(kw))

\* remove lines 121-126: KeyError from the mapping is swallowed and skips
\* delattr; AttributeError from delattr is not caught
RECURSIVE RemoveLoop(_, _, _)
RemoveLoop(st, at, args) ==
  IF args = <<>> THEN [store |-> st, attrs |-> at, raised |-> FALSE]
  ELSE LET k == Head(args) IN
    IF k \notin DOMAIN st THEN RemoveLoop(st, at, Tail(args))
    ELSE IF k \notin DOMAIN at
    THEN [store |-> Without(st, k), attrs |-> at, raised |-> TRUE]
    ELSE RemoveLoop(Without(st, k), Without(at, k), Tail(args))

\* set line 112: setattr(self, key, value) with a key that is the name of
\* the _persistent field assigns the field; the loop reaches the key unless
\* an earlier key made setattr raise
FlagAfterSet(before, kw) ==
  IF \E i \in DOMAIN kw :
       /\ kw[i][1] = "_persistent"
       /\ \A j \in 1..(i-1) : kw[j][1] \notin PropertyNames
  THEN TRUE
  ELSE before

\* set line 113 / remove line 127: the flag after a call that did not raise
DirtyAfterMutation(before) == TRUE
\* save line 142: the flag after the write attempt
DirtyAfterSave(before, written) == FALSE

\* fault variant: a successful write patches the members of the old
\* document instead of replacing the document
FileAfterSavePatched(f, st, outcome) ==
  IF outcome = "ok"
  THEN [kind |-> "json", text |-> Override(f.text, JsonDumps(st))]
  ELSE IF outcome = "write_err" THEN Garbage
  ELSE f
\* save lines 136-140: what open(filename, "w") and the write leave in the
\* file.  outcome: "ok", "open_err" (open raised, nothing touched),
\* "write_err" (open truncated the file, then dumps/write raised)
FileAfterSave(f, st, outcome) ==
  IF outcome = "ok" THEN [kind |-> "json", text |-> JsonDumps(st)]
  ELSE IF outcome = "write_err" THEN Garbage
  ELSE f
\* outcomes the device allows: a read-only mount refuses the open
SaveOutcomes(ro) == IF ro THEN {"open_err"} ELSE {"ok", "open_err", "write_err"}

\* save lines 129-142: the value save returns; it has no return statement,
\* so the caller gets None whatever the write did
SaveResult(outcome) == "None"

\* save lines 136-142: the calls made and how they ended, then the return
SaveCalls(outcome) ==
  (IF outcome = "open_err" THEN << <<"open_w", "err">> >>
   ELSE << <<"open_w", "ok">>,
           <<"write", IF outcome = "ok" THEN "ok" ELSE "err">> >>)
  \o << <<"return", SaveResult(outcome)>> >>

\* ------------------------------------------------------------- actions
\* Keystore(filename, pin, **_default)
__init__(pin, value, ok, impl, o) ==
  LET a0 == InitAttrs(_default)
      req == RemountRequested(pin)
      ro == RemountMode(pin, value)
      ld == _load(file, _default, a0.attrs, _default, impl, o)
      bad == a0.raised \/ ld.raised
  IN
  /\ phase' = IF bad THEN "failed" ELSE "live"
  /\ mounted_ro' = IF a0.raised \/ ~req THEN mounted_ro
                   ELSE MountAfter(mounted_ro, ro, ok)
  /\ log' = << <<"__init__", pin>> >>
            \o (IF a0.raised THEN Raise(TRUE, "AttributeError")
                ELSE GateCalls(pin, value, ok) \o ld.calls)
  /\ _store' = IF bad THEN EmptyMap ELSE ld.store
  /\ attrs' = IF bad THEN EmptyMap ELSE ld.attrs
  /\ _persistent' = IF bad \/ ~req THEN FALSE ELSE PersistentAfter(ro, ok)
  /\ _dirty' = FALSE
  /\ unsaved' = FALSE
  /\ rt' = IF rt.stage = 2 THEN [rt EXCEPT !.stage = 3] ELSE RtIdle
  /\ UNCHANGED <<_default, file>>

\* fault variant: set writes the mapping through to the file whenever the
\* mount allows it
setWriteThrough(kw) ==
  LET r == SetLoop(_store, attrs, kw) IN
  /\ phase = "live"
  /\ _store' = r.store
  /\ attrs' = r.attrs
  /\ _dirty' = IF r.raised THEN _dirty ELSE DirtyAfterMutation(_dirty)
  /\ log' = Raise(r.raised, "AttributeError")
  /\ unsaved' = TRUE
  /\ rt' = RtIdle
  /\ _persistent' = FlagAfterSet(_persistent, kw)
  /\ file' = IF mounted_ro THEN file ELSE JsonFile(r.store)
  /\ UNCHANGED <<_default, phase, mounted_ro>>
\* set(**kw)
set(kw) ==
  LET r == SetLoop(_store, attrs, kw) IN
  /\ phase = "live"
  /\ _store' = r.store
  /\ attrs' = r.attrs
  /\ _dirty' = IF r.raised THEN _dirty ELSE DirtyAfterMutation(_dirty)
  /\ log' = Raise(r.raised, "AttributeError")
  /\ unsaved' = TRUE
  /\ rt' = IF /\ ~r.raised
              /\ _store = _default
              /\ DOMAIN KwMap(kw) \subseteq DOMAIN _default
           THEN [stage |-> 1, K |-> KwMap(kw), wrote |-> FALSE]
           ELSE RtIdle
  /\ _persistent' = FlagAfterSet(_persistent, kw)
  /\ UNCHANGED <<_default, phase, file, mounted_ro>>

\* remove(*args)
remove(args) ==
  LET r == RemoveLoop(_store, attrs, args) IN
  /\ phase = "live"
  /\ _store' = r.store
  /\ attrs' = r.attrs
  /\ _dirty' = IF r.raised THEN _dirty ELSE DirtyAfterMutation(_dirty)
  /\ log' = Raise(r.raised, "AttributeError")
  /\ unsaved' = TRUE
  /\ rt' = RtIdle
  /\ UNCHANGED <<_default, _persistent, phase, file, mounted_ro>>

\* save(**kw)
save(kw, outcome) ==
  LET r == SetLoop(_store, attrs, kw)
      written == outcome = "ok"
  IN
  /\ phase = "live"
  /\ IF r.raised THEN outcome = "open_err"
     ELSE outcome \in SaveOutcomes(mounted_ro)
  /\ _store' = r.store
  /\ attrs' = r.attrs
  /\ file' = IF r.raised THEN file ELSE FileAfterSave(file, r.store, outcome)
  /\ log' = IF r.raised THEN Raise(TRUE, "AttributeError")
            ELSE SaveCalls(outcome)
  /\ _dirty' = IF r.raised THEN _dirty ELSE DirtyAfterSave(_dirty, written)
  /\ unsaved' = IF ~r.raised /\ written THEN FALSE
                ELSE (unsaved \/ kw # <<>>)
  /\ rt' = IF rt.stage = 1 /\ kw = <<>>
           THEN [rt EXCEPT !.stage = 2, !.wrote = written]
           ELSE RtIdle
  /\ _persistent' = FlagAfterSet(_persistent, kw)
  /\ UNCHANGED <<_default, phase, mounted_ro>>

\* the keys of the stored document that are not defaults
Stale(f, D) == (DOMAIN f.text) \ (DOMAIN D)

\* the dict behaviours and iteration orders that can tell this load apart:
\* without a stale key nothing is deleted, and only a compacting dict makes
\* the outcome depend on the order
ImplsFor(f, D) == IF Stale(f, D) = {} THEN {"checked"} ELSE DictImpls
OrdersFor(f, impl) ==
  IF impl = "compact" THEN Orders(DOMAIN f.text)
  ELSE {CHOOSE c \in Orders(DOMAIN f.text) : TRUE}
\* the pin level and the remount result matter only where they are used
LevelsFor(pin) == IF pin = "Pin" THEN BOOLEAN ELSE {TRUE}
ResultsFor(pin) == IF pin = "None" THEN {TRUE} ELSE BOOLEAN

Next ==
  \/ \E pin \in PinArgs : \E value \in LevelsFor(pin), ok \in ResultsFor(pin) :
       \E impl \in ImplsFor(file, _default) : \E o \in OrdersFor(file, impl) :
         __init__(pin, value, ok, impl, o)
  \/ \E kw \in Kwargs : set(kw)
  \/ \E args \in Args : remove(args)
  \/ \E kw \in Kwargs, outcome \in {"ok", "open_err", "write_err"} :
       save(kw, outcome)

Spec == Init /\ [][Next]_vars

\* the same object driven by a caller that also passes names of the
\* object's own fields as keys, over one default set and no stored file
InitAny ==
  /\ Init
  /\ DOMAIN _default = {"a"}
  /\ file = NoFile

NextAny ==
  \/ \E pin \in PinArgs : \E value \in LevelsFor(pin), ok \in ResultsFor(pin) :
       \E impl \in ImplsFor(file, _default) : \E o \in OrdersFor(file, impl) :
         __init__(pin, value, ok, impl, o)
  \/ \E kw \in KwargsAny : set(kw)
  \/ \E args \in Args : remove(args)
  \/ \E kw \in KwargsAny, outcome \in {"ok", "open_err", "write_err"} :
       save(kw, outcome)

SpecAny == InitAny /\ [][NextAny]_vars

\* ------------------------------------------------------ observations
Logged(c) == \E i \in DOMAIN log : log[i] = c
RemountCalls == {i \in DOMAIN log : log[i][1] = "remount"}
WritableRemounts == {i \in RemountCalls : log[i][2] = "rw"}
WriteCalls == {i \in DOMAIN log : log[i][1] \in {"open_w", "write"}}
Raised == \E i \in DOMAIN log : log[i][1] = "raise"
\* the last call was a save whose open or write failed
WriteFailed == Logged(<<"open_w", "err">>) \/ Logged(<<"write", "err">>)
\* the state right after a constructor call, and after one that returned
JustCalledInit == log # <<>> /\ log[1][1] = "__init__"
JustConstructed == JustCalledInit /\ phase = "live"
PinArg == log[1][2]
\* the defaults name no attribute of the class
OrdinaryDefaults == (DOMAIN _default) \cap PropertyNames = {}
\* the mapping held by the stored document
Document == JsonLoads(file.text)
\* the keys listed in a call of remove
ArgSet(args) == {args[i] : i \in DOMAIN args}
\* the step is a call of the named operation, with any arguments
SetStep == \E kw \in Kwargs : set(kw)
RemoveStep == \E args \in Args : remove(args)
SaveStep == \E kw \in Kwargs, outcome \in {"ok", "open_err", "write_err"} :
              save(kw, outcome)

\* ------------------------------------------------------------ properties

\* C1 as stated: after set(K) with K within the defaults, save(), and a
\* fresh construction, the live store equals the defaults overridden by K
\* (taken in its most favourable reading: the live store held exactly the
\* defaults when set(K) was called).
C1_RoundTripAsStated ==
  rt.stage = 3 => (phase = "live" /\ _store = Override(_default, rt.K))

\* C1 amended: when the live store equals the defaults before set(K) and
\* the write inside save() succeeds, then set(K), save() and a fresh
\* construction give a live store equal to the defaults overridden by K.
C1_RoundTrip ==
  (rt.stage = 3 /\ rt.wrote)
    => (phase = "live" /\ _store = Override(_default, rt.K))

C1_Witness ==
  /\ rt.stage = 3 /\ rt.wrote
  /\ phase = "live"
  /\ \E k \in DOMAIN rt.K : rt.K[k] # _default[k]
  /\ DOMAIN _default # DOMAIN rt.K

\* C2: after constructing over any decodable document, the constructor has
\* returned and the live store holds no key outside the defaults.
C2_Filtering ==
  (JustCalledInit /\ OrdinaryDefaults /\ file.kind = "json")
    => (phase = "live" /\ DOMAIN _store \subseteq DOMAIN _default)

\* C3: after constructing over a decodable document, the live store is the
\* defaults with the document's values for the default keys it holds, so
\* every default key is present (stated for documents holding default keys
\* only, where the deletions of C2 play no part).
C3_DefaultMerge ==
  (JustConstructed /\ file.kind = "json" /\ Stale(file, _default) = {})
    => /\ _store = Override(_default, Restrict(Document, DOMAIN _default))
       /\ DOMAIN _default \subseteq DOMAIN _store

\* C4: a construction calls remount at most once; a writable remount is
\* requested only for pin=False or a pin read low; a pin read high gets a
\* read-only remount; set, remove and save never call remount.
C4_MountGate ==
  /\ Cardinality(RemountCalls) <= 1
  /\ WritableRemounts # {}
       => (JustCalledInit /\ (PinArg = "False" \/ Logged(<<"pin", "low">>)))
  /\ Logged(<<"pin", "high">>) => WritableRemounts = {}
  /\ ~JustCalledInit => RemountCalls = {}

C4_Witness ==
  /\ JustConstructed
  /\ Logged(<<"pin", "low">>)
  /\ Logged(<<"remount", "rw", "ok">>)
  /\ ~mounted_ro

C6_NoInterlock ==
  (JustCalledInit /\ PinArg = "None")
    => /\ RemountCalls = {}
       /\ WriteCalls = {}
       /\ ~_persistent

C6_Witness ==
  /\ JustConstructed
  /\ PinArg = "None"
  /\ file.kind = "json"
  /\ ~mounted_ro

\* C7 as stated: a pin read low at construction gives is_persistent true,
\* a pin read high gives is_persistent false.
C7_ScenarioDAsStated ==
  JustConstructed =>
    /\ Logged(<<"pin", "low">>) => _persistent
    /\ Logged(<<"pin", "high">>) => ~_persistent

\* C7 amended: a pin read low gives is_persistent true when the remount
\* call succeeds and false when it fails; a pin read high gives false.
C7_ScenarioD ==
  JustConstructed =>
    /\ (Logged(<<"pin", "low">>) /\ Logged(<<"remount", "rw", "ok">>))
          => _persistent
    /\ (Logged(<<"pin", "low">>) /\ Logged(<<"remount", "rw", "err">>))
          => ~_persistent
    /\ Logged(<<"pin", "high">>) => ~_persistent

C7_Witness ==
  /\ JustConstructed
  /\ Logged(<<"pin", "low">>)
  /\ Logged(<<"remount", "rw", "ok">>)
  /\ _persistent

\* C8: is_dirty is true right after every set or remove call, false right
\* after every save call, and false right after construction.
C8_DirtyTransitions ==
  [][/\ (SetStep \/ RemoveStep) => _dirty'
     /\ SaveStep => ~_dirty'
     /\ JustConstructed' => ~_dirty']_vars

\* C9: is_dirty is true exactly when the live store was mutated since the
\* last save whose write succeeded, or since load (looked at after calls
\* that returned normally).
C9_DirtyMeaning ==
  (phase = "live" /\ ~Raised) => (_dirty <=> unsaved)

\* C10: constructing over a file that cannot be decoded returns normally
\* with the live store equal to the defaults and is_dirty false.
C10_MalformedFallback ==
  (JustCalledInit /\ OrdinaryDefaults /\ file.kind = "garbage")
    => (phase = "live" /\ _store = _default /\ ~_dirty)

\* C11: when the write inside save fails, save does not raise, the entries
\* passed to it stay applied to the live store, the stored document is
\* unchanged, and save's result differs from the result of a successful
\* save.
C11_FailedSaveReported ==
  [][\A kw \in Kwargs, outcome \in {"open_err", "write_err"} :
       (save(kw, outcome) /\ WriteFailed')
         => /\ ~Raised'
            /\ _store' = Override(_store, KwMap(kw))
            /\ file' = file
            /\ ~Logged(<<"return", SaveResult("ok")>>)']_vars

\* C12: a save call made while is_persistent is false leaves the stored
\* document as it was.
C12_SaveRespectsPersistence ==
  [][(SaveStep /\ ~_persistent) => file' = file]_vars

\* C13: right after a save whose write succeeded, the stored document is
\* the encoding of exactly the live store: every live key with its current
\* value, transient keys included, and no other key.
C13_FullRewrite ==
  Logged(<<"write", "ok">>)
    => /\ file = JsonFile(_store)
       /\ Document = _store

C13_Witness ==
  /\ Logged(<<"write", "ok">>)
  /\ (DOMAIN _store) \ (DOMAIN _default) # {}
  /\ (DOMAIN _default) \ (DOMAIN _store) # {}
  /\ \E k \in DOMAIN _store : _store[k][1] = "int"

C15_RemoveAbsentNoop ==
  [][\A args \in Args :
       remove(args)
         => /\ ~Raised'
            /\ _store' = Restrict(_store, (DOMAIN _store) \ ArgSet(args))]_vars

\* C16: no set, remove or save call, with any keys and values, changes the
\* defaults or the persistence flag that construction left (the model has
\* one path, so the path has no variable).
C16_ConstructionStateImmutable ==
  [][~JustCalledInit' => (_default' = _default /\ _persistent' = _persistent)]_vars

\* C17: in every state of a constructed object, the keys readable as
\* stored-value attributes are exactly the keys of the live store, with the
\* same values (looked at while the store holds no key that names a
\* property of the class).
C17_AttributeView ==
  (phase = "live" /\ (DOMAIN _store) \cap PropertyNames = {})
    => attrs = _store

====
